---- MODULE Spec2Model ----
(***************************************************************************)
(* Model of sync_notion.py: two calendars are matched day by day and each  *)
(* matched pair is written to a Notion database by upsert_notion_event.    *)
(*                                                                         *)
(* The Notion store is modelled as the API exposes it: every page and      *)
(* every block has an id, children.list(id) returns the ordered ids of the *)
(* non-archived children, children.append(id, ...) adds new blocks at the  *)
(* end, blocks.delete(id) archives one block, pages.update rewrites        *)
(* properties and databases.query filters pages.  Each API call is one     *)
(* step; the Python code between two calls runs with the step that         *)
(* receives the call's result.                                             *)
(*                                                                         *)
(* A Python string is a sequence of characters.  The two sentinel strings  *)
(* and a few fixed texts are single characters of the model's alphabet, so *)
(* that "x in s" is substring containment.                                 *)
(***************************************************************************)
EXTENDS Integers, Sequences, FiniteSets, TLC

\* ------------------------------------------------------------------ bounds
\* lines of an event description
MaxLines == 2
\* blocks directly under a page in an initial content area
MaxBlocks == 2
\* entries inside a toggle in an initial content area
MaxKids == 3
\* sync runs (executions of main) explored by SpecRun
MaxRuns == 2
\* events of the secondary calendar in SpecRun
MaxEvents == 2

\* ----------------------------------------------------------------- strings
SYNC_MARKER == <<"[SYNCED DESCRIPTION]">>
SYNC_CHILD_MARKER == <<"[SYNCED CONTENT]">>
SyncedDescriptionText == <<"Synced Description">>
PointerText == <<"See full description inside page">>
UnknownClass == <<"Unknown">>

\* Python: needle in hay
Contains(needle, hay) ==
    \E i \in 0..(Len(hay) - Len(needle)) :
        SubSeq(hay, i + 1, i + Len(needle)) = needle

LowerChar(c) ==
    CASE c = "A" -> "a"
      [] c = "B" -> "b"
      [] OTHER -> c

\* Python: s.lower()
Lower(s) == [i \in DOMAIN s |-> LowerChar(s[i])]

\* Python: bool(line.strip())
StripTruthy(line) == \E i \in DOMAIN line : line[i] # " "

\* Python: title.split(":")[0] if ":" in title else "Unknown"
class_name(title) ==
    IF \E i \in DOMAIN title : title[i] = ":"
    THEN LET k == CHOOSE i \in DOMAIN title :
                     /\ title[i] = ":"
                     /\ \A j \in 1..(i - 1) : title[j] # ":"
         IN  SubSeq(title, 1, k - 1)
    ELSE UnknownClass

\* ------------------------------------------------------------------ blocks
\* A block as the API returns it: its type and the plain_text of each run
\* of its rich_text.
Block(type, runs) == [type |-> type, rich_text |-> runs]

MarkerParagraph == Block("paragraph", <<SYNC_CHILD_MARKER>>)

\* lines 151-164: one description line as a block
LineBlock(line) ==
    IF StripTruthy(line)
    THEN Block("paragraph", <<line>>)
    ELSE Block("paragraph", <<>>)

\* the blocks built from description.splitlines()
new_blocks(lines) == [i \in DOMAIN lines |-> LineBlock(lines[i])]

\* the toggle the code creates: two runs, the sentinel in the second
FreshToggle == Block("toggle", <<SyncedDescriptionText, SYNC_MARKER>>)

\* lines 98-100: the toggle scan's test
IsSyncToggle(b) ==
    /\ b.type = "toggle"
    /\ b.rich_text # <<>>
    /\ Contains(SYNC_MARKER, b.rich_text[1])

\* the marker scan looking for the toggle's sentinel instead of the child's
IsMarkerChildToggleSentinel(b) ==
    /\ b.type = "paragraph"
    /\ b.rich_text # <<>>
    /\ Contains(SYNC_MARKER, b.rich_text[1])

\* lines 113-115: the marker scan's test
IsMarkerChild(b) ==
    /\ b.type = "paragraph"
    /\ b.rich_text # <<>>
    /\ Contains(SYNC_CHILD_MARKER, b.rich_text[1])

Range(s) == {s[i] : i \in DOMAIN s}

\* first index of s whose element satisfies P, 0 when there is none
FirstIndex(s, P(_)) ==
    IF \E i \in DOMAIN s : P(s[i])
    THEN CHOOSE i \in DOMAIN s : P(s[i]) /\ \A j \in 1..(i - 1) : ~P(s[j])
    ELSE 0

IndexOf(s, x) == FirstIndex(s, LAMBDA y : y = x)


\* ------------------------------------------------------------------ events
\* Python None, for a missing timestamp or property
None == <<>>

\* Python: datetime.isoformat()
isoformat(ts) == <<"iso", ts[1], ts[2]>>

Event(uid, name, begin, end, description) ==
    [uid |-> uid, name |-> name, begin |-> begin, end |-> end,
     description |-> description]

\* a description is the sequence description.splitlines(); the empty
\* string is the empty sequence
LineAlphabet == {<<"x">>, <<" ">>}

SeqsUpTo(S, n) == UNION {[1..k -> S] : k \in 0..n}

\* every description of up to MaxLines lines, and one whose line is the
\* child sentinel itself
Descriptions == SeqsUpTo(LineAlphabet, MaxLines) \cup {<<SYNC_CHILD_MARKER>>}

NoEvent == Event("", <<>>, <<0, 0>>, None, <<>>)

\* ------------------------------------------------------------------- state
VARIABLES
    props,      \* page id -> properties of the database row
    block,      \* block id -> block
    children,   \* page or block id -> ids of its children, in order
    nextId,     \* the id the store gives to the next new block
    pc,         \* per execution of upsert_notion_event: the call it is at
    loc,        \* per execution: its local variables
    pre,        \* per execution: the store when the execution started
    last,       \* the execution of upsert_notion_event that returned last
    calls,      \* direct calls of upsert_notion_event made so far
    created,    \* ids of the toggles upsert_notion_event appended
    run,        \* the state of main
    app         \* the application of a pure function: arguments and result

vars == <<props, block, children, nextId, pc, loc, pre, last, calls, created, run, app>>

Pages == {1, 2}
NumPages == Cardinality(Pages)
\* the executions of upsert_notion_event; main uses the first, the second
\* is the overlapping execution of another run
Procs == {1, 2}

\* the calls of the Notion client that upsert_notion_event makes
ReadCalls == {"query", "list_page", "list_toggle", "relist", "list_last"}
MutationCalls == {"update", "delete", "append_marker", "append_lines",
                  "append_toggle", "append_lines_new"}
ApiCalls == ReadCalls \cup MutationCalls

NoLocals ==
    [event |-> NoEvent, accurate_event |-> NoEvent, page_id |-> 0, toggle_id |-> 0,
     found_toggle |-> FALSE, marker_id |-> 0, to_delete |-> <<>>,
     raised |-> "", writes |-> 0]

NoLast ==
    [valid |-> FALSE, event |-> NoEvent, accurate_event |-> NoEvent, page_id |-> 0,
     ok |-> FALSE, view |-> <<>>, props |-> <<>>]

\* no pure function has been applied
NoApp == [f |-> "", args |-> <<>>, result |-> <<>>, applied |-> FALSE]

\* main is not running: Spec calls upsert_notion_event directly
RunOff ==
    [state |-> "off", runs |-> 0, events_a_by_day |-> [keys |-> <<>>, bucket |-> <<>>],
     existing_titles |-> {}, days |-> <<>>, events_b_by_day |-> [keys |-> <<>>, bucket |-> <<>>],
     events |-> <<>>, in_day |-> FALSE, accurate_events |-> <<>>, raised |-> "",
     upserts |-> 0, repeat |-> FALSE, updated |-> {}, skipped |-> 0, props0 |-> <<>>]

\* ------------------------------------------------------- initial contents
\* An initial content area is a sequence of top-level blocks, each with the
\* entries it holds.
Shape(b, kids) == [b |-> b, kids |-> kids]

KidAlphabet == {MarkerParagraph, Block("paragraph", <<<<"a">>>>)}

KidSeqs == SeqsUpTo(KidAlphabet, MaxKids)

\* a synced toggle holding any entries
RichShapes == {Shape(Block("toggle", <<SYNC_MARKER>>), k) : k \in KidSeqs}

\* a synced toggle whose entries are a heading with the sentinel text, the
\* marker and a paragraph without text
OddToggle ==
    Shape(Block("toggle", <<SYNC_MARKER>>),
          <<Block("heading_1", <<SYNC_CHILD_MARKER>>), MarkerParagraph,
            Block("paragraph", <<>>)>>)

\* a paragraph, a paragraph with the toggle sentinel, a toggle without
\* text, a toggle as the code creates it, and the odd toggle
PlainShapes ==
    {Shape(Block("paragraph", <<<<"a">>>>), <<>>),
     Shape(Block("paragraph", <<SYNC_MARKER>>), <<>>),
     Shape(Block("toggle", <<>>), <<MarkerParagraph>>),
     Shape(FreshToggle, <<MarkerParagraph>>),
     OddToggle}

TopShapes == PlainShapes \cup RichShapes

\* up to MaxBlocks top-level blocks, at most one of them a rich shape
Contents ==
    {c \in SeqsUpTo(TopShapes, MaxBlocks) :
        Cardinality({i \in DOMAIN c : c[i] \in RichShapes \ PlainShapes}) <= 1}

TopId(p, i) == NumPages + (p - 1) * MaxBlocks + i
KidId(p, i, j) ==
    NumPages + NumPages * MaxBlocks + ((p - 1) * MaxBlocks + (i - 1)) * MaxKids + j

TopSlots == {<<p, i>> : p \in Pages, i \in 1..MaxBlocks}
KidSlots == {<<p, i, j>> : p \in Pages, i \in 1..MaxBlocks, j \in 1..MaxKids}

UsedTop(c) == {s \in TopSlots : s[2] <= Len(c[s[1]])}
UsedKid(c) ==
    {s \in KidSlots : s[2] <= Len(c[s[1]]) /\ s[3] <= Len(c[s[1]][s[2]].kids)}

\* the store holding content c[p] under page p
block0(c) ==
    LET tops == {TopId(s[1], s[2]) : s \in UsedTop(c)}
        kids == {KidId(s[1], s[2], s[3]) : s \in UsedKid(c)}
    IN  [id \in tops \cup kids |->
            IF id \in tops
            THEN LET s == CHOOSE x \in UsedTop(c) : TopId(x[1], x[2]) = id
                 IN  c[s[1]][s[2]].b
            ELSE LET s == CHOOSE x \in UsedKid(c) : KidId(x[1], x[2], x[3]) = id
                 IN  c[s[1]][s[2]].kids[s[3]]]

children0(c) ==
    LET tops == {TopId(s[1], s[2]) : s \in UsedTop(c)}
        kids == {KidId(s[1], s[2], s[3]) : s \in UsedKid(c)}
    IN  [id \in Pages \cup tops \cup kids |->
            IF id \in Pages
            THEN [i \in 1..Len(c[id]) |-> TopId(id, i)]
            ELSE IF id \in tops
            THEN LET s == CHOOSE x \in UsedTop(c) : TopId(x[1], x[2]) = id
                 IN  [j \in 1..Len(c[s[1]][s[2]].kids) |-> KidId(s[1], s[2], j)]
            ELSE <<>>]

FirstFreeId == NumPages + NumPages * MaxBlocks + NumPages * MaxBlocks * MaxKids + 1

Row(title, event_id) ==
    [title |-> title, class |-> None, start |-> None, end |-> None,
     event_id |-> event_id, description |-> <<>>]


\* ------------------------------------------------------------ the store
\* children.list(id)["results"], as ids
list(id) == children[id]

\* children.append(parent, children=blocks): the new blocks get fresh ids
\* and go to the end of the parent's children
AppendedChildren(ch, parent, n) ==
    [id \in DOMAIN ch \cup (nextId..(nextId + n - 1)) |->
        IF id = parent THEN ch[id] \o [i \in 1..n |-> nextId + i - 1]
        ELSE IF id \in DOMAIN ch THEN ch[id]
        ELSE <<>>]

AppendedBlocks(bl, blocks) ==
    [id \in DOMAIN bl \cup (nextId..(nextId + Len(blocks) - 1)) |->
        IF id \in DOMAIN bl THEN bl[id] ELSE blocks[id - nextId + 1]]

\* blocks.delete(id): the block is archived and no longer listed
DeletedChildren(ch, id) ==
    [c \in DOMAIN ch |-> SelectSeq(ch[c], LAMBDA x : x # id)]

\* the content of a page without the ids: what a reader of the page sees
View(p) ==
    [i \in DOMAIN children[p] |->
        [b |-> block[children[p][i]],
         kids |-> [j \in DOMAIN children[children[p][i]] |->
                      block[children[children[p][i]][j]]]]]

\* --------------------------------------------------- find_existing_page
\* the values find_existing_page can return: a page whose "Event ID"
\* equals event_id, or 0 (None) when the query has no result
find_existing_page(event_id) ==
    LET results == {p \in Pages : props[p].event_id = event_id}
    IN  IF results # {} THEN results ELSE {0}

\* ------------------------------------------------- upsert_notion_event
\* an update that also writes "Event ID", from the primary event
PropertiesUpdateWithId(old, event, accurate_event) ==
    [old EXCEPT !.title = <<event.name>>,
                !.class = class_name(event.name),
                !.start = isoformat(accurate_event.begin),
                !.end = IF accurate_event.end # None
                        THEN isoformat(accurate_event.end) ELSE None,
                !.event_id = accurate_event.uid,
                !.description = <<PointerText>>]

\* an update that derives "Class" from the title the page holds
PropertiesUpdateStoredTitle(old, event, accurate_event) ==
    [old EXCEPT !.title = <<event.name>>,
                !.class = IF old.title # <<>> THEN class_name(old.title[1])
                          ELSE UnknownClass,
                !.start = isoformat(accurate_event.begin),
                !.end = IF accurate_event.end # None
                        THEN isoformat(accurate_event.end) ELSE None,
                !.description = <<PointerText>>]

\* lines 79-92: the properties pages.update writes; "Event ID" is not one
PropertiesUpdate(old, event, accurate_event) ==
    [old EXCEPT !.title = <<event.name>>,
                !.class = class_name(event.name),
                !.start = isoformat(accurate_event.begin),
                !.end = IF accurate_event.end # None
                        THEN isoformat(accurate_event.end) ELSE None,
                !.description = <<PointerText>>]

\* a delete loop that starts with found_marker set
DeleteAllButMarker(toggle_children, m) ==
    SelectSeq(toggle_children, LAMBDA id : id # toggle_children[m])

\* a delete loop that spares the entry right after the marker
DeleteAfterFirst(toggle_children, m) ==
    SubSeq(toggle_children, m + 2, Len(toggle_children))

\* a delete loop that takes the marker along
DeleteFromMarker(toggle_children, m) ==
    SubSeq(toggle_children, m, Len(toggle_children))

\* lines 121-127: the children the delete loop deletes, those listed after
\* the marker
AfterMarker(toggle_children, m) ==
    SubSeq(toggle_children, m + 1, Len(toggle_children))

\* where the code goes once the region after the marker is cleared
AfterClear(description) ==
    IF description # <<>> THEN "append_lines" ELSE "done"

\* line 73: existing_page = find_existing_page(event_id)
Query(t) ==
    /\ pc[t] = "query"
    /\ \E p \in find_existing_page(loc[t].event.uid) :
          /\ loc' = [loc EXCEPT ![t].page_id = p]
          /\ pc' = [pc EXCEPT ![t] = IF p # 0 THEN "update" ELSE "done"]
    /\ UNCHANGED <<props, block, children, nextId, pre, last, calls, created, run, app>>

\* lines 79-92: notion.pages.update
Update(t) ==
    /\ pc[t] = "update"
    /\ props' = [props EXCEPT ![loc[t].page_id] =
                    PropertiesUpdate(@, loc[t].event, loc[t].accurate_event)]
    /\ loc' = [loc EXCEPT ![t].writes = @ + 1]
    /\ pc' = [pc EXCEPT ![t] = "list_page"]
    /\ UNCHANGED <<block, children, nextId, pre, last, calls, created, run, app>>

\* lines 95-104: list the page and scan it for the synced toggle
ListPage(t) ==
    /\ pc[t] = "list_page"
    /\ LET results == list(loc[t].page_id)
           i == FirstIndex(results, LAMBDA id : IsSyncToggle(block[id]))
       IN  IF i # 0
           THEN /\ loc' = [loc EXCEPT ![t].toggle_id = results[i],
                                      ![t].found_toggle = TRUE]
                /\ pc' = [pc EXCEPT ![t] = "list_toggle"]
           ELSE /\ loc' = loc
                /\ pc' = [pc EXCEPT ![t] = "append_toggle"]
    /\ UNCHANGED <<props, block, children, nextId, pre, last, calls, created, run, app>>

\* lines 105-126: list the toggle, scan it for the marker child and find
\* what the delete loop will delete
ListToggle(t) ==
    /\ pc[t] = "list_toggle"
    /\ LET toggle_children == list(loc[t].toggle_id)
           m == FirstIndex(toggle_children, LAMBDA id : IsMarkerChild(block[id]))
           dels == AfterMarker(toggle_children, m)
       IN  IF m # 0
           THEN /\ loc' = [loc EXCEPT ![t].marker_id = toggle_children[m],
                                      ![t].to_delete = dels]
                /\ pc' = [pc EXCEPT ![t] =
                             IF dels # <<>> THEN "delete"
                             ELSE AfterClear(loc[t].event.description)]
           ELSE /\ loc' = loc
                /\ pc' = [pc EXCEPT ![t] = "append_marker"]
    /\ UNCHANGED <<props, block, children, nextId, pre, last, calls, created, run, app>>

\* line 127: notion.blocks.delete(child["id"]), once per loop iteration
Delete(t) ==
    /\ pc[t] = "delete"
    /\ children' = DeletedChildren(children, Head(loc[t].to_delete))
    /\ loc' = [loc EXCEPT ![t].to_delete = Tail(@)]
    /\ pc' = [pc EXCEPT ![t] =
                 IF Tail(loc[t].to_delete) # <<>> THEN "delete"
                 ELSE AfterClear(loc[t].event.description)]
    /\ UNCHANGED <<props, block, nextId, pre, last, calls, created, run, app>>

\* lines 130-141: no marker found, append one to the toggle
AppendMarker(t) ==
    /\ pc[t] = "append_marker"
    /\ children' = AppendedChildren(children, loc[t].toggle_id, 1)
    /\ block' = AppendedBlocks(block, <<MarkerParagraph>>)
    /\ nextId' = nextId + 1
    /\ pc' = [pc EXCEPT ![t] = "relist"]
    /\ UNCHANGED <<props, loc, pre, last, calls, created, run, app>>

\* line 144: the refreshed child list, which the code does not use again
Relist(t) ==
    /\ pc[t] = "relist"
    /\ pc' = [pc EXCEPT ![t] = AfterClear(loc[t].event.description)]
    /\ UNCHANGED <<props, block, children, nextId, loc, pre, last, calls, created, run, app>>

\* lines 147-166: append the description's lines to the toggle
AppendLines(t) ==
    /\ pc[t] = "append_lines"
    /\ LET blocks == new_blocks(loc[t].event.description)
       IN  /\ children' = AppendedChildren(children, loc[t].toggle_id, Len(blocks))
           /\ block' = AppendedBlocks(block, blocks)
           /\ nextId' = nextId + Len(blocks)
    /\ pc' = [pc EXCEPT ![t] = "done"]
    /\ UNCHANGED <<props, loc, pre, last, calls, created, run, app>>

\* lines 168-199: no toggle found, append a fresh one holding the marker
AppendToggle(t) ==
    /\ pc[t] = "append_toggle"
    /\ children' = [AppendedChildren(children, loc[t].page_id, 1) @@
                       ((nextId + 1) :> <<>>)
                    EXCEPT ![nextId] = <<nextId + 1>>]
    /\ block' = (nextId :> FreshToggle) @@ ((nextId + 1) :> MarkerParagraph) @@ block
    /\ nextId' = nextId + 2
    /\ created' = created \cup {nextId}
    /\ pc' = [pc EXCEPT ![t] =
                 IF loc[t].event.description # <<>> THEN "list_last" ELSE "done"]
    /\ UNCHANGED <<props, loc, pre, last, calls, run, app>>

\* line 219: toggle_id = the id of the page's last block
ListLast(t) ==
    /\ pc[t] = "list_last"
    /\ list(loc[t].page_id) # <<>>
    /\ loc' = [loc EXCEPT ![t].toggle_id =
                  list(loc[t].page_id)[Len(list(loc[t].page_id))]]
    /\ pc' = [pc EXCEPT ![t] = "append_lines_new"]
    /\ UNCHANGED <<props, block, children, nextId, pre, last, calls, created, run, app>>

\* line 220: append the description's lines to that block
AppendLinesNew(t) ==
    /\ pc[t] = "append_lines_new"
    /\ LET blocks == new_blocks(loc[t].event.description)
       IN  /\ children' = AppendedChildren(children, loc[t].toggle_id, Len(blocks))
           /\ block' = AppendedBlocks(block, blocks)
           /\ nextId' = nextId + Len(blocks)
    /\ pc' = [pc EXCEPT ![t] = "done"]
    /\ UNCHANGED <<props, loc, pre, last, calls, created, run, app>>

\* any call of the Notion client can raise; nothing in upsert_notion_event
\* catches it, so the exception leaves the function
ApiRaise(t) ==
    /\ pc[t] \in ApiCalls
    /\ loc' = [loc EXCEPT ![t].raised = pc[t]]
    /\ pc' = [pc EXCEPT ![t] = "raised"]
    /\ UNCHANGED <<props, block, children, nextId, pre, last, calls, created, run, app>>

UpsertStep(t) ==
    \/ Query(t)
    \/ Update(t)
    \/ ListPage(t)
    \/ ListToggle(t)
    \/ Delete(t)
    \/ AppendMarker(t)
    \/ Relist(t)
    \/ AppendLines(t)
    \/ AppendToggle(t)
    \/ ListLast(t)
    \/ AppendLinesNew(t)

\* ------------------------------------------ direct calls of the function
\* the secondary events and the primary event a direct call is made with
DirectEvents ==
    {Event("u1", <<"a", ":", "b">>, <<1, 9>>, None, d) : d \in Descriptions}
    \cup {Event("u9", <<"b">>, <<1, 9>>, None, <<<<"x">>>>)}

DirectAccurate == {Event("ua", <<"b">>, <<1, 10>>, <<1, 11>>, <<>>)}

\* upsert_notion_event(event, accurate_event) is called
Call(t, event, accurate_event) ==
    /\ run.state = "off"
    /\ pc[t] = "idle"
    /\ calls' = calls + 1
    /\ loc' = [loc EXCEPT ![t] = [NoLocals EXCEPT !.event = event,
                                      !.accurate_event = accurate_event]]
    /\ pre' = [pre EXCEPT ![t] = [children |-> children, block |-> block,
                                  props |-> props]]
    /\ pc' = [pc EXCEPT ![t] = "query"]
    /\ UNCHANGED <<props, block, children, nextId, last, created, run, app>>

\* the call returns, or the exception leaves it
Return(t) ==
    /\ run.state = "off"
    /\ pc[t] \in {"done", "raised"}
    /\ last' = [valid |-> TRUE, event |-> loc[t].event,
                accurate_event |-> loc[t].accurate_event,
                page_id |-> loc[t].page_id, ok |-> pc[t] = "done",
                view |-> IF loc[t].page_id # 0 THEN View(loc[t].page_id) ELSE <<>>,
                props |-> IF loc[t].page_id # 0 THEN props[loc[t].page_id] ELSE <<>>]
    /\ pc' = [pc EXCEPT ![t] = "idle"]
    /\ UNCHANGED <<props, block, children, nextId, loc, pre, calls, created, run, app>>

\* page 1 carries an identifier; page 2 is a legacy row without one
DirectRows ==
    [p \in Pages |-> IF p = 1 THEN Row(<<<<"a">>>>, "u1") ELSE Row(<<<<"b">>>>, "")]

LegacyContent == <<Shape(Block("paragraph", <<<<"a">>>>), <<>>)>>

InitStore(c, rows) ==
    /\ props = rows
    /\ block = block0(c)
    /\ children = children0(c)
    /\ nextId = FirstFreeId
    /\ pc = [t \in Procs |-> "idle"]
    /\ loc = [t \in Procs |-> NoLocals]
    /\ pre = [t \in Procs |-> [children |-> children0(c), block |-> block0(c),
                               props |-> rows]]
    /\ last = NoLast
    /\ calls = 0
    /\ created = {}
    /\ app = NoApp

Init ==
    /\ \E c1 \in Contents :
          InitStore([p \in Pages |-> IF p = 1 THEN c1 ELSE LegacyContent], DirectRows)
    /\ run = RunOff

\* one call of upsert_notion_event on any record and content area
NextCall ==
    \/ \E e \in DirectEvents, a \in DirectAccurate : calls = 0 /\ Call(1, e, a)
    \/ UpsertStep(1)
    \/ Return(1)

SpecCall == Init /\ [][NextCall]_vars

\* two calls of upsert_notion_event in a row
Next ==
    \/ \E e \in DirectEvents, a \in DirectAccurate : calls \in {0, 1} /\ Call(1, e, a)
    \/ UpsertStep(1)
    \/ Return(1)

Spec == Init /\ [][Next]_vars


\* -------------------------------------------------------------------- main
\* Python: event.begin.date()
date(ts) == ts[1]

\* a grouping that inserts each event at the front of its day's list
events_by_day_prepend(calendar) ==
    LET firsts == {i \in DOMAIN calendar :
                      \A j \in 1..(i - 1) : date(calendar[j].begin) # date(calendar[i].begin)}
        pick[i \in 0..Len(calendar)] ==
            IF i = 0 THEN <<>>
            ELSE IF i \in firsts THEN Append(pick[i - 1], date(calendar[i].begin))
            ELSE pick[i - 1]
        keys == pick[Len(calendar)]
    IN  [keys |-> keys,
         bucket |-> [d \in Range(keys) |->
                        LET b == SelectSeq(calendar, LAMBDA e : date(e.begin) = d)
                        IN  [i \in 1..Len(b) |-> b[Len(b) + 1 - i]]]]

\* lines 38-43: the days in the order the calendar first yields them, and
\* for each day its events in the order the calendar yields them
events_by_day(calendar) ==
    LET firsts == {i \in DOMAIN calendar :
                      \A j \in 1..(i - 1) : date(calendar[j].begin) # date(calendar[i].begin)}
        pick[i \in 0..Len(calendar)] ==
            IF i = 0 THEN <<>>
            ELSE IF i \in firsts THEN Append(pick[i - 1], date(calendar[i].begin))
            ELSE pick[i - 1]
        keys == pick[Len(calendar)]
    IN  [keys |-> keys,
         bucket |-> [d \in Range(keys) |->
                        SelectSeq(calendar, LAMBDA e : date(e.begin) = d)]]

\* a snapshot that reads the "Class" property of the pages
get_existing_titles_class ==
    {props[p].class : p \in {q \in Pages : props[q].class # None}}

\* lines 45-52: the content of the first text run of the title of each page
\* that has a title
get_existing_titles ==
    {props[p].title[1] : p \in {q \in Pages : props[q].title # <<>>}}

\* a match that compares the names as they are written
find_matching_event_exact(target_event, same_day_events) ==
    FirstIndex(same_day_events,
               LAMBDA e : /\ e.name # <<>>
                          /\ target_event.name # <<>>
                          /\ Contains(e.name, target_event.name))

\* lines 54-58: the index of the first same-day event whose name is in the
\* target's name, ignoring case; 0 for None
find_matching_event(target_event, same_day_events) ==
    FirstIndex(same_day_events,
               LAMBDA e : /\ e.name # <<>>
                          /\ target_event.name # <<>>
                          /\ Contains(Lower(e.name), Lower(target_event.name)))

\* the calendars a run can fetch
PrimaryPool ==
    {Event("ua", <<"A">>, <<1, 10>>, <<1, 11>>, <<>>),
     Event("ub", <<"c">>, <<1, 12>>, None, <<>>)}

SecondaryPool ==
    {Event("u1", <<"a", ":", "b">>, <<1, 9>>, None, <<<<"x">>>>),
     Event("u2", <<"B", "a">>, <<1, 9>>, None, <<>>)}

\* the primary calendar: any of its events, each at most once, in any order
CalendarsA ==
    {c \in SeqsUpTo(PrimaryPool, Cardinality(PrimaryPool)) :
        \A i, j \in DOMAIN c : i # j => c[i] # c[j]}
CalendarsB == SeqsUpTo(SecondaryPool, MaxEvents)

\* lines 223-228: both calendars are fetched and grouped by day
MainStart(cal_a, cal_b) ==
    /\ run.state \in {"ready", "finished", "aborted"}
    /\ run.runs < MaxRuns
    /\ run' = [state |-> "titles", runs |-> run.runs + 1,
               events_a_by_day |-> events_by_day(cal_a),
               events_b_by_day |-> events_by_day(cal_b),
               existing_titles |-> {}, days |-> <<>>, events |-> <<>>,
               in_day |-> FALSE, accurate_events |-> <<>>, raised |-> "",
               upserts |-> 0, repeat |-> FALSE, updated |-> {}, skipped |-> 0,
               props0 |-> props]
    /\ UNCHANGED <<props, block, children, nextId, pc, loc, pre, last, calls, created, app>>

\* line 229: the titles are read once, before the loop
MainTitles ==
    /\ run.state = "titles"
    /\ run' = [run EXCEPT !.state = "loop",
                          !.existing_titles = get_existing_titles,
                          !.days = run.events_b_by_day.keys]
    /\ UNCHANGED <<props, block, children, nextId, pc, loc, pre, last, calls, created, app>>

\* line 229: the query raises; nothing in main catches it
MainTitlesRaise ==
    /\ run.state = "titles"
    /\ run' = [run EXCEPT !.state = "aborted", !.raised = "query_titles"]
    /\ UNCHANGED <<props, block, children, nextId, pc, loc, pre, last, calls, created, app>>

\* a loop that offers the events of the first primary day on every day
MainNextDayFirstBucket ==
    /\ run.state = "loop"
    /\ ~run.in_day
    /\ run.days # <<>>
    /\ run.events_a_by_day.keys # <<>>
    /\ run' = [run EXCEPT !.days = Tail(@),
                          !.in_day = TRUE,
                          !.events = run.events_b_by_day.bucket[Head(run.days)],
                          !.accurate_events =
                              run.events_a_by_day.bucket[run.events_a_by_day.keys[1]]]
    /\ UNCHANGED <<props, block, children, nextId, pc, loc, pre, last, calls, created, app>>

\* lines 233-236: the next day of the secondary calendar has primary events
MainNextDay ==
    /\ run.state = "loop"
    /\ ~run.in_day
    /\ run.days # <<>>
    /\ Head(run.days) \in Range(run.events_a_by_day.keys)
    /\ run' = [run EXCEPT !.days = Tail(@),
                          !.in_day = TRUE,
                          !.events = run.events_b_by_day.bucket[Head(run.days)],
                          !.accurate_events = run.events_a_by_day.bucket[Head(run.days)]]
    /\ UNCHANGED <<props, block, children, nextId, pc, loc, pre, last, calls, created, app>>

\* lines 234-235: the day has no primary event
MainSkipDay ==
    /\ run.state = "loop"
    /\ ~run.in_day
    /\ run.days # <<>>
    /\ Head(run.days) \notin Range(run.events_a_by_day.keys)
    /\ run' = [run EXCEPT !.days = Tail(@)]
    /\ UNCHANGED <<props, block, children, nextId, pc, loc, pre, last, calls, created, app>>

\* the inner loop has taken the first of the day's remaining events
Taken(r) == [r EXCEPT !.events = Tail(@), !.in_day = Tail(r.events) # <<>>]

\* lines 238-240: the event's title was a page's title when the run started
MainSkipTitle ==
    /\ run.state = "loop"
    /\ run.in_day
    /\ Head(run.events).name \in run.existing_titles
    /\ run' = [Taken(run) EXCEPT !.skipped = @ + 1]
    /\ UNCHANGED <<props, block, children, nextId, pc, loc, pre, last, calls, created, app>>

\* lines 242, 246-247: no primary event of the day matches
MainNoMatch ==
    /\ run.state = "loop"
    /\ run.in_day
    /\ Head(run.events).name \notin run.existing_titles
    /\ find_matching_event(Head(run.events), run.accurate_events) = 0
    /\ run' = Taken(run)
    /\ UNCHANGED <<props, block, children, nextId, pc, loc, pre, last, calls, created, app>>

\* lines 242-244: a primary event matches and upsert_notion_event is called
MainUpsert ==
    /\ run.state = "loop"
    /\ run.in_day
    /\ pc[1] = "idle"
    /\ Head(run.events).name \notin run.existing_titles
    /\ LET m == find_matching_event(Head(run.events), run.accurate_events)
       IN  /\ m # 0
           /\ loc' = [loc EXCEPT ![1] = [NoLocals EXCEPT
                         !.event = Head(run.events),
                         !.accurate_event = run.accurate_events[m]]]
    /\ pre' = [pre EXCEPT ![1] = [children |-> children, block |-> block,
                                  props |-> props]]
    /\ pc' = [pc EXCEPT ![1] = "query"]
    /\ run' = [Taken(run) EXCEPT !.state = "upsert"]
    /\ UNCHANGED <<props, block, children, nextId, last, calls, created, app>>

\* the identifier of the event execution t issued pages.update for
Updated(t) == IF loc[t].writes > 0 THEN {loc[t].event.uid} ELSE {}

\* lines 244-245: upsert_notion_event has returned and the loop goes on
MainReturn ==
    /\ run.state = "upsert"
    /\ pc[1] = "done"
    /\ pc' = [pc EXCEPT ![1] = "idle"]
    /\ loc' = [loc EXCEPT ![1] = NoLocals]
    /\ pre' = [pre EXCEPT ![1] = [children |-> children, block |-> block,
                                  props |-> props]]
    /\ run' = [run EXCEPT !.state = "loop", !.upserts = @ + 1,
                          !.updated = @ \cup Updated(1)]
    /\ UNCHANGED <<props, block, children, nextId, last, calls, created, app>>

\* line 244: the exception of upsert_notion_event leaves main, which has no
\* handler: the run ends with the day's and the calendar's remaining events
\* unprocessed
MainAbort ==
    /\ run.state = "upsert"
    /\ pc[1] = "raised"
    /\ pc' = [pc EXCEPT ![1] = "idle"]
    /\ loc' = [loc EXCEPT ![1] = NoLocals]
    /\ pre' = [pre EXCEPT ![1] = [children |-> children, block |-> block,
                                  props |-> props]]
    /\ run' = [run EXCEPT !.state = "aborted", !.raised = loc[1].raised,
                          !.updated = @ \cup Updated(1)]
    /\ UNCHANGED <<props, block, children, nextId, last, calls, created, app>>

\* the outer loop has no day left
MainFinish ==
    /\ run.state = "loop"
    /\ ~run.in_day
    /\ run.days = <<>>
    /\ run' = [run EXCEPT !.state = "finished"]
    /\ UNCHANGED <<props, block, children, nextId, pc, loc, pre, last, calls, created, app>>

\* the store of a run: two rows with identifiers and stale titles; the
\* first page empty, with a synced toggle holding a marker, or with a
\* synced toggle without marker
RunRows ==
    [p \in Pages |-> IF p = 1 THEN Row(<<<<"o">>>>, "u1") ELSE Row(<<<<"o">>>>, "u2")]

RunContents ==
    {<<>>,
     <<Shape(Block("toggle", <<SYNC_MARKER>>),
             <<Block("paragraph", <<<<"a">>>>), MarkerParagraph>>)>>,
     <<Shape(Block("toggle", <<SYNC_MARKER>>), <<MarkerParagraph, MarkerParagraph>>)>>,
     <<Shape(Block("toggle", <<SYNC_MARKER>>), <<>>)>>}

InitRun ==
    /\ \E c1 \in RunContents :
          InitStore([p \in Pages |-> IF p = 1 THEN c1 ELSE <<>>], RunRows)
    /\ run = [RunOff EXCEPT !.state = "ready"]

NextRun ==
    \/ \E a \in CalendarsA, b \in CalendarsB : MainStart(a, b)
    \/ MainTitles
    \/ MainTitlesRaise
    \/ MainNextDay
    \/ MainSkipDay
    \/ MainSkipTitle
    \/ MainNoMatch
    \/ MainUpsert
    \/ UpsertStep(1)
    \/ ApiRaise(1)
    \/ MainReturn
    \/ MainAbort
    \/ MainFinish

SpecRun == InitRun /\ [][NextRun]_vars

\* ------------------------------------------------------ claims under Spec
\* the positions in container c of the paragraphs whose first run holds
\* the child sentinel: the entries a marker scan takes for the marker
MarkerEntries(c) ==
    {i \in DOMAIN children[c] :
        LET b == block[children[c][i]]
        IN  /\ b.type = "paragraph"
            /\ Len(b.rich_text) >= 1
            /\ \E k \in DOMAIN b.rich_text[1] : b.rich_text[1][k] = "[SYNCED CONTENT]"}

\* the blocks listed after position m of container c, without their ids
EntriesAfter(c, m) ==
    [i \in 1..(Len(list(c)) - m) |-> block[list(c)[m + i]]]

\* the container an execution at "done" has worked on: the toggle it found,
\* or the toggle it appended (the last block of the page)
Container(t) ==
    IF loc[t].toggle_id # 0 THEN loc[t].toggle_id
    ELSE list(loc[t].page_id)[Len(list(loc[t].page_id))]

\* the second of two calls in a row with the same pair, on a record that
\* exists, has returned
SecondOfSamePair(t) ==
    /\ pc[t] = "done"
    /\ loc[t].page_id # 0
    /\ last.valid
    /\ last.ok
    /\ last.page_id = loc[t].page_id
    /\ last.event = loc[t].event
    /\ last.accurate_event = loc[t].accurate_event

\* C1: when upsert_notion_event has run twice in a row with the same pair
\* on an existing record, the record's content area after the second run is
\* what it was after the first run.
C1_Idempotent ==
    SecondOfSamePair(1) => View(loc[1].page_id) = last.view

\* C2: a toggle that upsert_notion_event created is found again by the
\* scan of later calls, so no page ever holds two toggles that the function
\* created.
C2_ContainerReused ==
    \A p \in Pages : Cardinality(created \cap Range(list(p))) <= 1

\* C3 as stated: when a call on an existing record has returned, the
\* container it worked on holds exactly one entry that is a marker.
C3_ExactlyOneMarker ==
    (pc[1] = "done" /\ loc[1].page_id # 0)
        => Cardinality(MarkerEntries(Container(1))) = 1

SentinelLines(description) ==
    {i \in DOMAIN description : Contains(SYNC_CHILD_MARKER, description[i])}

\* C3 (amended): when a call on an existing record has returned, a marker
\* that the scan found is still listed and is the first marker entry of its
\* container, and the container's marker entries are one marker plus one
\* entry for each description line that contains the sentinel text.
C3_MarkerReused ==
    (pc[1] = "done" /\ loc[1].page_id # 0) =>
        LET c == Container(1)
            ms == MarkerEntries(c)
        IN  /\ Cardinality(ms) = 1 + Cardinality(SentinelLines(loc[1].event.description))
            /\ loc[1].marker_id # 0 =>
                  /\ IndexOf(list(c), loc[1].marker_id) \in ms
                  /\ \A i \in ms : IndexOf(list(c), loc[1].marker_id) <= i
                  /\ loc[1].marker_id \in Range(pre[1].children[c])

\* a call that found a marker has returned and the container holds only
\* that marker entry
C3_Witness ==
    /\ pc[1] = "done"
    /\ loc[1].marker_id # 0
    /\ loc[1].to_delete = <<>>
    /\ Len(pre[1].children[loc[1].toggle_id]) > 1
    /\ Cardinality(MarkerEntries(Container(1))) = 1
    /\ Len(list(Container(1))) > 1

\* the entries the description should leave after the marker: one per
\* line, a blank line as an entry without text
ExpectedEntries(description) ==
    [i \in DOMAIN description |->
        IF \A j \in DOMAIN description[i] : description[i][j] = " "
        THEN [type |-> "paragraph", rich_text |-> <<>>]
        ELSE [type |-> "paragraph", rich_text |-> <<description[i]>>]]

\* what followed the marker when the call started
PreAfterMarker(t) ==
    LET tc == pre[t].children[loc[t].toggle_id]
        m == IndexOf(tc, loc[t].marker_id)
    IN  [i \in 1..(Len(tc) - m) |-> pre[t].block[tc[m + i]]]

\* the call found the toggle and the marker, the description is not what
\* followed the marker, and the call has returned
ReplacedChanged(t) ==
    /\ pc[t] = "done"
    /\ loc[t].found_toggle
    /\ loc[t].marker_id # 0
    /\ PreAfterMarker(t) # ExpectedEntries(loc[t].event.description)

\* C4: when a call has found the toggle and the marker and the description
\* differs from what followed the marker, at return none of the entries
\* that followed the marker is listed any more and the entries after the
\* marker are the description's lines in order, a blank line being an
\* entry without text.
C4_ReplaceExact ==
    ReplacedChanged(1) =>
        LET c == loc[1].toggle_id
            m == IndexOf(list(c), loc[1].marker_id)
            old == pre[1].children[c]
            mOld == IndexOf(old, loc[1].marker_id)
        IN  /\ m # 0
            /\ \A i \in (mOld + 1)..Len(old) : old[i] \notin Range(list(c))
            /\ EntriesAfter(c, m) = ExpectedEntries(loc[1].event.description)

\* a replace that removed two old entries and wrote two lines, one blank
C4_Witness ==
    /\ ReplacedChanged(1)
    /\ Len(PreAfterMarker(1)) >= 1
    /\ Len(loc[1].event.description) = 2
    /\ \E i \in 1..2 : ~StripTruthy(loc[1].event.description[i])
    /\ \E i \in 1..2 : StripTruthy(loc[1].event.description[i])

\* the ids that the call owns: the entries listed after the first marker of
\* the first synced toggle of the record, as they were when the call started
OwnedAtStart(t) ==
    IF loc[t].page_id = 0 THEN {}
    ELSE LET top == pre[t].children[loc[t].page_id]
             i == FirstIndex(top, LAMBDA id : IsSyncToggle(pre[t].block[id]))
         IN  IF i = 0 THEN {}
             ELSE LET tc == pre[t].children[top[i]]
                      m == FirstIndex(tc, LAMBDA id : IsMarkerChild(pre[t].block[id]))
                  IN  IF m = 0 THEN {} ELSE {tc[k] : k \in (m + 1)..Len(tc)}

\* C5: during and after a call, every block that was in the store when the
\* call started and does not follow the marker inside the synced toggle is
\* still listed under the same parent, with the same content, in the same
\* order relative to the other such blocks.
C5_FrameKept ==
    LET kept == DOMAIN pre[1].block \ OwnedAtStart(1)
    IN  /\ \A id \in kept : block[id] = pre[1].block[id]
        /\ \A c \in DOMAIN pre[1].children :
              SelectSeq(children[c], LAMBDA id : id \in kept)
                  = SelectSeq(pre[1].children[c], LAMBDA id : id \in kept)

\* a call returned after deleting what followed the marker, in a toggle
\* that holds an entry before the marker, on a page with another block
C5_Witness ==
    /\ pc[1] = "done"
    /\ loc[1].marker_id # 0
    /\ OwnedAtStart(1) # {}
    /\ IndexOf(list(loc[1].toggle_id), loc[1].marker_id) > 1
    /\ Len(pre[1].children[loc[1].page_id]) > 1
    /\ loc[1].event.description # <<>>

\* C6: when a call has returned it has written the structured fields once,
\* by an update or a create, and a record with the event's identifier and
\* title exists.
C6_OneCreateOrUpdate ==
    pc[1] = "done" =>
        /\ loc[1].writes = 1
        /\ \E p \in DOMAIN props :
              /\ props[p].event_id = loc[1].event.uid
              /\ props[p].title = <<loc[1].event.name>>

\* C8: when no record had the event's identifier and a record without
\* identifier had the event's title, the lookup returns that record and the
\* record then carries the identifier.
C8_TitleFallback ==
    LET legacy == {p \in Pages : /\ pre[1].props[p].title = <<loc[1].event.name>>
                                 /\ pre[1].props[p].event_id = ""}
    IN  (/\ pc[1] = "done"
         /\ legacy # {}
         /\ \A p \in Pages : pre[1].props[p].event_id # loc[1].event.uid)
            => /\ loc[1].page_id \in legacy
               /\ props[loc[1].page_id].event_id = loc[1].event.uid


\* --------------------------------------------------- claims under SpecRun
\* C7: no two records carry the same identifier.
C7_IdentifierUnique ==
    \A p, q \in DOMAIN props :
        (p # q /\ props[p].event_id # "") => props[p].event_id # props[q].event_id

\* a run has finished after updating two records
C7_Witness ==
    /\ run.state = "finished"
    /\ run.upserts = 2
    /\ \A p \in Pages : props[p].description = <<PointerText>>

\* the events the loop of main has not yet taken
Remaining == run.events # <<>> \/ run.days # <<>>

\* C9: a store mutation that fails while a pair is synced does not end the
\* run before the remaining events are processed.
C9_MutationFailureContained ==
    ~(run.state = "aborted" /\ run.raised \in MutationCalls /\ Remaining)

\* C10: a failed query by identifier does not end the run.
C10_LookupFailureContained ==
    ~(run.state = "aborted" /\ run.raised = "query")

\* ------------------------------------------- a run and its repetition
\* main is started again with the calendars of the run that just finished
MainRerun ==
    /\ run.state = "finished"
    /\ run.runs < MaxRuns
    /\ run' = [run EXCEPT !.state = "titles", !.runs = @ + 1,
                          !.existing_titles = {}, !.days = <<>>, !.events = <<>>,
                          !.in_day = FALSE, !.accurate_events = <<>>,
                          !.raised = "", !.upserts = 0, !.repeat = TRUE,
                          !.updated = {}, !.skipped = 0, !.props0 = props]
    /\ UNCHANGED <<props, block, children, nextId, pc, loc, pre, last, calls, created, app>>

NextRerun ==
    \/ \E a \in CalendarsA, b \in CalendarsB : run.state = "ready" /\ MainStart(a, b)
    \/ MainRerun
    \/ MainTitles
    \/ MainTitlesRaise
    \/ MainNextDay
    \/ MainSkipDay
    \/ MainSkipTitle
    \/ MainNoMatch
    \/ MainUpsert
    \/ UpsertStep(1)
    \/ ApiRaise(1)
    \/ MainReturn
    \/ MainAbort
    \/ MainFinish

SpecRerun == InitRun /\ [][NextRerun]_vars

\* the secondary events of the run that have a matching primary event on
\* their day and whose identifier is the "Event ID" of a page
MatchedWithRecord ==
    {e \in UNION {Range(run.events_b_by_day.bucket[d]) :
                     d \in Range(run.events_b_by_day.keys)} :
        /\ date(e.begin) \in Range(run.events_a_by_day.keys)
        /\ \E a \in Range(run.events_a_by_day.bucket[date(e.begin)]) :
              /\ a.name # <<>>
              /\ e.name # <<>>
              /\ Contains(Lower(a.name), Lower(e.name))
        /\ \E p \in Pages : props[p].event_id = e.uid}

\* C11: when a run is repeated with unchanged calendars, every matched
\* secondary event whose record exists has had pages.update issued for its
\* record by the end of the repeated run
C11_RerunUpdates ==
    (run.state = "finished" /\ run.repeat) =>
        \A e \in MatchedWithRecord : e.uid \in run.updated

\* ------------------------------------- two calls on a record with a toggle
\* the record of a direct call with each content area a run can meet
InitTwice ==
    /\ \E c1 \in RunContents :
          InitStore([p \in Pages |-> IF p = 1 THEN c1 ELSE LegacyContent], DirectRows)
    /\ run = RunOff

SpecTwice == InitTwice /\ [][Next]_vars

\* C12: when upsert_notion_event has run twice in a row with the same pair
\* on an existing record, the record's title, class, start, end, identifier
\* and description property after the second run are what they were after
\* the first run.
C12_FieldsIdempotent ==
    SecondOfSamePair(1) => props[loc[1].page_id] = last.props

C12_Witness ==
    /\ SecondOfSamePair(1)
    /\ props[loc[1].page_id].title = <<loc[1].event.name>>
    /\ props[loc[1].page_id].class = <<"a">>
    /\ loc[1].writes = 1

\* --------------------------------------- the pure functions on their own
MaxCalendar == 3

\* the names the events of a match carry
MatchNames ==
    {<<>>, <<"a">>, <<"A">>, <<"a", "b">>, <<"A", "B">>, <<"b", "a">>}

Named(name) == Event("", name, <<1, 9>>, None, <<>>)

\* the events of a calendar that is grouped: two days, two hours each
DayPool ==
    {Event("", <<"a">>, <<d, h>>, None, <<>>) : d \in {1, 2}, h \in {9, 10}}

\* the applications of find_matching_event and of events_by_day
MatchInputs ==
    {[f |-> "find_matching_event", args |-> <<Named(n), c>>, result |-> <<>>,
      applied |-> FALSE] :
        n \in MatchNames, c \in SeqsUpTo({Named(m) : m \in MatchNames}, MaxEvents)}

DayInputs ==
    {[f |-> "events_by_day", args |-> <<c>>, result |-> <<>>, applied |-> FALSE] :
        c \in SeqsUpTo(DayPool, MaxCalendar)}

InitPure ==
    /\ props = RunRows
    /\ block = block0([p \in Pages |-> <<>>])
    /\ children = children0([p \in Pages |-> <<>>])
    /\ nextId = FirstFreeId
    /\ pc = [t \in Procs |-> "idle"]
    /\ loc = [t \in Procs |-> NoLocals]
    /\ pre = [t \in Procs |-> [children |-> children, block |-> block,
                               props |-> props]]
    /\ last = NoLast
    /\ calls = 0
    /\ created = {}
    /\ run = RunOff
    /\ app \in MatchInputs \cup DayInputs

\* find_matching_event(target_event, same_day_events) is applied
ApplyMatch ==
    /\ app.f = "find_matching_event"
    /\ ~app.applied
    /\ app' = [app EXCEPT !.result = find_matching_event(app.args[1], app.args[2]),
                          !.applied = TRUE]
    /\ UNCHANGED <<props, block, children, nextId, pc, loc, pre, last, calls, created, run>>

\* events_by_day(calendar) is applied
ApplyDays ==
    /\ app.f = "events_by_day"
    /\ ~app.applied
    /\ app' = [app EXCEPT !.result = events_by_day(app.args[1]), !.applied = TRUE]
    /\ UNCHANGED <<props, block, children, nextId, pc, loc, pre, last, calls, created, run>>

NextPure ==
    \/ ApplyMatch
    \/ ApplyDays

SpecPure == InitPure /\ [][NextPure]_vars

\* two characters that differ at most in case
SameLetter(x, y) == x = y \/ {x, y} = {"a", "A"} \/ {x, y} = {"b", "B"}

\* needle occurs in hay as a run of consecutive characters, ignoring case
OccursIgnoringCase(needle, hay) ==
    \E k \in 0..(Len(hay) - Len(needle)) :
        \A i \in 1..Len(needle) : SameLetter(needle[i], hay[k + i])

Satisfies(e, target) ==
    /\ e.name # <<>>
    /\ target.name # <<>>
    /\ OccursIgnoringCase(e.name, target.name)

\* C13: find_matching_event returns the first candidate, in candidate
\* order, whose title is non-empty and occurs, ignoring case, in the target's
\* non-empty title; it returns None when no candidate is such, which
\* includes a target with an empty title.
C13_FirstMatch ==
    (app.f = "find_matching_event" /\ app.applied) =>
        LET target == app.args[1]
            candidates == app.args[2]
            r == app.result
        IN  IF \E i \in DOMAIN candidates : Satisfies(candidates[i], target)
            THEN /\ r \in DOMAIN candidates
                 /\ Satisfies(candidates[r], target)
                 /\ \A j \in 1..(r - 1) : ~Satisfies(candidates[j], target)
            ELSE r = 0

\* the second candidate is returned, for a name that differs in case, after
\* a first candidate with a title that is not in the target's
C13_Witness ==
    /\ app.f = "find_matching_event"
    /\ app.applied
    /\ app.result = 2
    /\ app.args[2][1].name # <<>>
    /\ ~Contains(app.args[2][2].name, app.args[1].name)

\* the positions of the calendar whose event starts on day d
PositionsOf(calendar, d) == {i \in DOMAIN calendar : date(calendar[i].begin) = d}

\* the k-th smallest member of a set of positions
Kth(positions, k) ==
    CHOOSE i \in positions : Cardinality({j \in positions : j < i}) = k - 1

\* C14: events_by_day has one bucket for each day on which an event of
\* the calendar starts and no other bucket; the bucket of a day holds the
\* events that start on that day, each position of the calendar once, in the
\* order of the calendar; so no bucket is empty and every event is in
\* exactly one bucket.
C14_Partition ==
    (app.f = "events_by_day" /\ app.applied) =>
        LET calendar == app.args[1]
            days == app.result
            dates == {date(calendar[i].begin) : i \in DOMAIN calendar}
        IN  /\ DOMAIN days.bucket = dates
            /\ Range(days.keys) = dates
            /\ Len(days.keys) = Cardinality(dates)
            /\ \A d \in dates :
                  /\ days.bucket[d] # <<>>
                  /\ Len(days.bucket[d]) = Cardinality(PositionsOf(calendar, d))
                  /\ \A k \in 1..Len(days.bucket[d]) :
                        days.bucket[d][k] = calendar[Kth(PositionsOf(calendar, d), k)]

\* a calendar whose days interleave: the first and the third event share a
\* day, the second is on another, and the two of a day differ
C14_Witness ==
    /\ app.f = "events_by_day"
    /\ app.applied
    /\ Len(app.args[1]) = 3
    /\ date(app.args[1][1].begin) = date(app.args[1][3].begin)
    /\ date(app.args[1][1].begin) # date(app.args[1][2].begin)
    /\ app.args[1][1] # app.args[1][3]
    /\ Len(app.result.keys) = 2

\* ------------------------------------------------ claims under SpecRun
\* the blocks that were listed under a parent when the execution started
\* and are no longer listed under it
Unlisted(t) ==
    {id \in DOMAIN pre[t].block :
        \E c \in DOMAIN pre[t].children :
            /\ id \in Range(pre[t].children[c])
            /\ id \notin Range(children[c])}

\* C15: in every state of every sequence of runs, each page of the
\* database is still a row of it and still a parent in the store, and the
\* only blocks an execution of upsert_notion_event has removed are entries
\* that followed the marker inside the synced toggle when it started.
C15_NoRecordDeleted ==
    /\ \A p \in Pages : p \in DOMAIN props /\ p \in DOMAIN children
    /\ Unlisted(1) \subseteq OwnedAtStart(1)

\* in a second run, a call has removed what followed the marker
C15_Witness ==
    /\ run.runs = 2
    /\ run.state = "upsert"
    /\ pc[1] = "done"
    /\ OwnedAtStart(1) # {}
    /\ Unlisted(1) = OwnedAtStart(1)

\* ------------------------------------------ a run over calendars of two days
PrimaryDays ==
    {Event("ua", <<"A">>, <<1, 10>>, <<1, 11>>, <<>>),
     Event("ub", <<"c">>, <<2, 12>>, None, <<>>),
     Event("uc", <<"a">>, <<2, 10>>, <<2, 11>>, <<>>)}

SecondaryDays ==
    {Event("u1", <<"a", ":", "b">>, <<1, 9>>, None, <<<<"x">>>>),
     Event("u2", <<"B", "a">>, <<2, 9>>, None, <<>>),
     Event("u2", <<"o">>, <<1, 9>>, None, <<>>)}

DayCalendarsA ==
    {c \in SeqsUpTo(PrimaryDays, Cardinality(PrimaryDays)) :
        \A i, j \in DOMAIN c : i # j => c[i] # c[j]}
DayCalendarsB == SeqsUpTo(SecondaryDays, MaxEvents)

\* one run of main
NextDay ==
    \/ \E a \in DayCalendarsA, b \in DayCalendarsB : run.state = "ready" /\ MainStart(a, b)
    \/ MainTitles
    \/ MainTitlesRaise
    \/ MainNextDay
    \/ MainSkipDay
    \/ MainSkipTitle
    \/ MainNoMatch
    \/ MainUpsert
    \/ UpsertStep(1)
    \/ ApiRaise(1)
    \/ MainReturn
    \/ MainAbort
    \/ MainFinish

\* the second page carries the title of a secondary event, as one text run
\* or split in two
DayRows ==
    {[p \in Pages |-> IF p = 1 THEN Row(<<<<"o">>>>, "u1") ELSE Row(t, "u2")] :
        t \in {<<<<"B", "a">>>>, <<<<"B">>, <<"a">>>>}}

InitDay ==
    /\ \E c1 \in RunContents, rows \in DayRows :
          InitStore([p \in Pages |-> IF p = 1 THEN c1 ELSE <<>>], rows)
    /\ run = [RunOff EXCEPT !.state = "ready"]

SpecDay == InitDay /\ [][NextDay]_vars

\* the secondary events the run fetched
SecondaryEvents ==
    UNION {Range(run.events_b_by_day.bucket[d]) : d \in Range(run.events_b_by_day.keys)}

\* the days on which a primary event the run fetched starts
PrimaryDates ==
    UNION {{date(a.begin) : a \in Range(run.events_a_by_day.bucket[d])} :
              d \in Range(run.events_a_by_day.keys)}

\* C16: whenever main has called upsert_notion_event, the secondary and
\* the primary event it passed start on the same day, which is a day of the
\* primary calendar; and in a run in which every secondary event is on a day
\* without primary event, no call is made and the store stays as it was.
C16_SameDay ==
    /\ run.state = "upsert" =>
          /\ date(loc[1].event.begin) = date(loc[1].accurate_event.begin)
          /\ date(loc[1].event.begin) \in PrimaryDates
    /\ (run.state \notin {"ready", "off"}
          /\ \A e \in SecondaryEvents : date(e.begin) \notin PrimaryDates) =>
          /\ run.upserts = 0
          /\ pc[1] = "idle"
          /\ props = run.props0
          /\ children = pre[1].children
          /\ block = pre[1].block

\* a run over two secondary days has finished: one day had a primary event
\* and a call was made for it, the other had none
C16_Witness ==
    /\ run.state = "finished"
    /\ Len(run.events_b_by_day.keys) = 2
    /\ Cardinality(PrimaryDates) = 1
    /\ run.upserts = 1
    /\ run.updated # {}

\* ----------------------------------------------- claims under SpecCall
\* C17: when the scan found the synced toggle and no marker in it, the
\* marker the call has created is the first entry of the toggle, and every
\* entry the toggle held when the call started is listed after it.
C17_MarkerFirst ==
    pc[1] = "relist" =>
        LET toggle_children == list(loc[1].toggle_id)
        IN  /\ toggle_children # <<>>
            /\ toggle_children[1] \notin DOMAIN pre[1].block
            /\ block[toggle_children[1]] = MarkerParagraph
            /\ \A id \in Range(pre[1].children[loc[1].toggle_id]) :
                  IndexOf(toggle_children, id) > 1

\* ------------------------------------ two overlapping executions on a record
\* the pair both executions are called with: one record, any description
RaceEvents == {e \in DirectEvents : e.uid = "u1"}

\* an execution that has not run yet is called with the pair of the other
RaceCall(t, event, accurate_event) ==
    /\ loc[t].event = NoEvent
    /\ \A u \in Procs : loc[u].event \in {NoEvent, event}
    /\ Call(t, event, accurate_event)

\* the executions take their API calls in any order; blocks.delete of a
\* block the other execution has deleted either changes nothing or raises
NextRace ==
    \/ \E t \in Procs, e \in RaceEvents, a \in DirectAccurate : RaceCall(t, e, a)
    \/ \E t \in Procs : UpsertStep(t)
    \/ \E t \in Procs : ApiRaise(t)

SpecRace == InitTwice /\ [][NextRace]_vars

\* both executions found the same toggle and its marker, and have returned
BothReplaced ==
    /\ \A t \in Procs : pc[t] = "done" /\ loc[t].found_toggle /\ loc[t].marker_id # 0
    /\ loc[1].toggle_id = loc[2].toggle_id
    /\ loc[1].marker_id = loc[2].marker_id

\* C18: two overlapping executions on one record with one description,
\* both of which found the marker, leave after the marker the description's
\* lines once or the description's lines twice; the second happens, so
\* overlapping executions do not keep the entries after the marker equal to
\* the description.
C18_OnceOrTwice ==
    BothReplaced =>
        LET c == loc[1].toggle_id
            m == IndexOf(list(c), loc[1].marker_id)
            lines == ExpectedEntries(loc[1].event.description)
        IN  /\ m # 0
            /\ EntriesAfter(c, m) \in {lines, lines \o lines}

\* both executions listed the toggle before either appended: each line of
\* a description of two lines is there twice
C18_Witness ==
    /\ BothReplaced
    /\ Len(loc[1].event.description) = 2
    /\ LET c == loc[1].toggle_id
           m == IndexOf(list(c), loc[1].marker_id)
           lines == ExpectedEntries(loc[1].event.description)
       IN  /\ EntriesAfter(c, m) = lines \o lines
           /\ EntriesAfter(c, m) # lines

\* the text of a title: its text runs one after the other
RECURSIVE PlainText(_)
PlainText(title) ==
    IF title = <<>> THEN <<>> ELSE Head(title) \o PlainText(Tail(title))

\* the titles the pages had when the run started
TitlesAtStart ==
    {PlainText(run.props0[p].title) : p \in {q \in Pages : run.props0[q].title # <<>>}}

\* the first text runs of the titles the pages had when the run started
FirstRunsAtStart ==
    {run.props0[p].title[1] : p \in {q \in Pages : run.props0[q].title # <<>>}}

\* C19 as stated: main never calls upsert_notion_event for a secondary
\* event whose title is the title of a page at the start of the run.
C19_TitleSkip ==
    run.state = "upsert" => loc[1].event.name \notin TitlesAtStart

\* C19: main never calls upsert_notion_event for a secondary event whose
\* title is the first text run of the title of a page at the start of the
\* run; in a run in which every secondary event has such a title no call is
\* made and the store stays as it was.
C19_FirstRunSkip ==
    /\ run.state = "upsert" => loc[1].event.name \notin FirstRunsAtStart
    /\ (run.state \notin {"ready", "off"}
          /\ \A e \in SecondaryEvents : e.name \in FirstRunsAtStart) =>
          /\ run.upserts = 0
          /\ pc[1] = "idle"
          /\ props = run.props0
          /\ children = pre[1].children
          /\ block = pre[1].block

\* a run has finished in which every secondary event was skipped for its
\* title, on days that have primary events that match
C19_Witness ==
    /\ run.state = "finished"
    /\ run.skipped = 2
    /\ run.upserts = 0
    /\ \E e \in SecondaryEvents :
          /\ e.name = <<"B", "a">>
          /\ date(e.begin) \in PrimaryDates
          /\ \E a \in Range(run.events_a_by_day.bucket[date(e.begin)]) : Satisfies(a, e)

====
